---- MODULE Spec2Model ----
(***************************************************************************)
(* release-pilot: conventional-commit parsing, bump policy, version        *)
(* arithmetic, changelog rendering and the release orchestrator.           *)
(*                                                                         *)
(* A JavaScript string is modelled as a sequence of one-character strings, *)
(* so that split, trim, replace, startsWith and the regular expressions    *)
(* are computed on the characters as the code computes them.               *)
(***************************************************************************)
EXTENDS Integers, Sequences, FiniteSets

VARIABLES
    vparts,     \* SpecVer: the dot-free components the input string is built of
    vprefix,    \* SpecVer: what precedes the first component ("", "v", "vv")
    vkind,      \* SpecVer: the bumpType argument
    vres,       \* SpecVer: the outcome of calcNextVersion, or NotRun
    phash,      \* SpecParse: the hash field of the raw record
    psubj,      \* SpecParse: the subject field of the raw record
    pbody,      \* SpecParse: the body field of the raw record
    pstage,     \* SpecParse: "subject", "body", "ready", "done"
    pres,       \* SpecParse: what parseCommit returned
    bcommits,   \* SpecBump: the classified commits handed to determineBumpType
    bres,       \* SpecBump: what determineBumpType returned, or "none"
    pkg,        \* package.json: [state, version]
    clog,       \* CHANGELOG.md: [exists, lines]
    since,      \* git log <lastTag>..HEAD --no-merges, newest first, raw records
    relCommits, \* the versions of the release commits created so far, in order
    tags,       \* the names of the local tags
    lastTag,    \* git describe --tags --abbrev=0; the empty string when none
    remote,     \* whether the remote "origin" is configured
    remoteTags, \* the names of the tags on the remote
    pc,         \* where the command in progress stands
    run,        \* the options and local values of the command in progress
    devs,       \* the number of commits the developer has added
    rraws,      \* SpecRender: the raw records handed to parseCommits
    rparsed,    \* SpecRender: what parseCommits returned
    rdoc,       \* SpecRender: the lines generateChangelog returned
    rstage,     \* SpecRender: "raws", "parsed", "rendered"
    dry         \* SpecPair: what the dry-run release ended with, or NoRun

verVars == <<vparts, vprefix, vkind, vres>>
parseVars == <<phash, psubj, pbody, pstage, pres>>
bumpVars == <<bcommits, bres>>
extVars == <<pkg, clog, since, relCommits, tags, lastTag, remoteTags>>
relVars == <<extVars, remote, pc, run, devs>>
renderVars == <<rraws, rparsed, rdoc, rstage>>
pairVars == <<dry>>
vars == <<verVars, parseVars, bumpVars, relVars, renderVars, pairVars>>

-----------------------------------------------------------------------------
(* Characters and strings                                                  *)

Digits == <<"0", "1", "2", "3", "4", "5", "6", "7", "8", "9">>

IsDigit(c) == \E i \in 1..Len(Digits) : Digits[i] = c

DigitVal(c) == (CHOOSE i \in 1..Len(Digits) : Digits[i] = c) - 1

AllDigits(s) == \A i \in 1..Len(s) : IsDigit(s[i])

RECURSIVE Join(_, _)
\* Array.prototype.join / the inverse of split: parts separated by sep
Join(parts, sep) ==
    IF Len(parts) = 0 THEN <<>>
    ELSE IF Len(parts) = 1 THEN parts[1]
    ELSE parts[1] \o sep \o Join(Tail(parts), sep)

RECURSIVE Split(_, _)
\* String.prototype.split on a one-character separator
Split(s, sep) ==
    IF \A i \in 1..Len(s) : s[i] # sep THEN <<s>>
    ELSE LET k == CHOOSE i \in 1..Len(s) :
                      s[i] = sep /\ \A j \in 1..(i - 1) : s[j] # sep
         IN  <<SubSeq(s, 1, k - 1)>> \o Split(SubSeq(s, k + 1, Len(s)), sep)

StartsWith(s, p) == Len(s) >= Len(p) /\ SubSeq(s, 1, Len(p)) = p

-----------------------------------------------------------------------------
(* Number(string) and String(number), on the characters of the model       *)

NaN == [nan |-> TRUE, val |-> 0]

Num(n) == [nan |-> FALSE, val |-> n]

RECURSIVE DecVal(_)
DecVal(s) ==
    IF Len(s) = 0 THEN 0
    ELSE DecVal(SubSeq(s, 1, Len(s) - 1)) * 10 + DigitVal(s[Len(s)])

RECURSIVE HexVal(_)
HexVal(s) ==
    IF Len(s) = 0 THEN 0
    ELSE HexVal(SubSeq(s, 1, Len(s) - 1)) * 16 + DigitVal(s[Len(s)])

\* Number(s): the empty string is 0, a decimal numeral with an optional sign
\* is its value, 0x<digits> is read as hexadecimal, anything else is NaN.
Number(s) ==
    IF Len(s) = 0 THEN Num(0)
    ELSE IF AllDigits(s) THEN Num(DecVal(s))
    ELSE IF s[1] \in {"-", "+"} /\ Len(s) > 1 /\ AllDigits(Tail(s))
         THEN Num(IF s[1] = "-" THEN 0 - DecVal(Tail(s)) ELSE DecVal(Tail(s)))
    ELSE IF Len(s) > 2 /\ s[1] = "0" /\ s[2] \in {"x", "X"}
            /\ AllDigits(SubSeq(s, 3, Len(s)))
         THEN Num(HexVal(SubSeq(s, 3, Len(s))))
    ELSE NaN

RECURSIVE NatStr(_)
NatStr(n) ==
    IF n < 10 THEN <<Digits[n + 1]>>
    ELSE NatStr(n \div 10) \o <<Digits[(n % 10) + 1]>>

\* `${n}` for an integer n
NumStr(n) == IF n < 0 THEN <<"-">> \o NatStr(0 - n) ELSE NatStr(n)

-----------------------------------------------------------------------------
(* bumper.js: calcNextVersion                                              *)

Thrown(msg) == [ok |-> FALSE, err |-> msg, val |-> <<>>]

Returned(v) == [ok |-> TRUE, err |-> "", val |-> v]

\* current.replace(/^v/, '')
StripV(current) ==
    IF StartsWith(current, <<"v">>) THEN Tail(current) ELSE current

VersionParts(current) ==
    LET comps == Split(StripV(current), ".")
    IN  [i \in 1..Len(comps) |-> Number(comps[i])]

\* a calcNextVersion whose minor case leaves the patch number as it is
BumpedParts_KeepPatch(parts, bumpType) ==
    LET major == parts[1].val
        minor == parts[2].val
        patch == parts[3].val
    IN  CASE bumpType = "major" -> <<major + 1, 0, 0>>
          [] bumpType = "minor" -> <<major, minor + 1, patch>>
          [] bumpType = "patch" -> <<major, minor, patch + 1>>
          [] OTHER -> <<major, minor, patch>>

BumpedParts(parts, bumpType) ==
    LET major == parts[1].val
        minor == parts[2].val
        patch == parts[3].val
    IN  CASE bumpType = "major" -> <<major + 1, 0, 0>>
          [] bumpType = "minor" -> <<major, minor + 1, 0>>
          [] bumpType = "patch" -> <<major, minor, patch + 1>>
          [] OTHER -> <<major, minor, patch>>

calcNextVersion(current, bumpType) ==
    LET parts == VersionParts(current)
    IN  IF Len(parts) # 3 \/ \E i \in 1..Len(parts) : parts[i].nan
        THEN Thrown("InvalidSemver")
        ELSE LET n == BumpedParts(parts, bumpType)
             IN  Returned(NumStr(n[1]) \o <<".">> \o NumStr(n[2])
                          \o <<".">> \o NumStr(n[3]))

-----------------------------------------------------------------------------
(* parser.js: parseCommit, parseCommits, COMMIT_TYPES                      *)

NUL == "NUL"    \* the character \x00 of the git log format
LF == "LF"      \* the character \n

Lower == <<"a", "b", "c", "d", "e", "f", "g", "h", "i", "j", "k", "l", "m",
           "n", "o", "p", "q", "r", "s", "t", "u", "v", "w", "x", "y", "z">>

Upper == <<"A", "B", "C", "D", "E", "F", "G", "H", "I", "J", "K", "L", "M",
           "N", "O", "P", "Q", "R", "S", "T", "U", "V", "W", "X", "Y", "Z">>

IsLower(c) == \E i \in 1..Len(Lower) : Lower[i] = c

\* the case folding of the /i flag
UpperOf(c) ==
    IF IsLower(c) THEN Upper[CHOOSE i \in 1..Len(Lower) : Lower[i] = c] ELSE c

\* the characters \s matches and trim() removes
IsSpace(c) == c \in {" ", LF}

RECURSIVE Trim(_)
\* String.prototype.trim
Trim(s) ==
    IF Len(s) = 0 THEN s
    ELSE IF IsSpace(s[1]) THEN Trim(Tail(s))
    ELSE IF IsSpace(s[Len(s)]) THEN Trim(SubSeq(s, 1, Len(s) - 1))
    ELSE s

\* (parts[k] || '').trim(), k counted from 1
Field(parts, k) == IF k <= Len(parts) THEN Trim(parts[k]) ELSE <<>>

RECURSIVE SkipSpaces(_, _)
\* the position after the run of \s characters that starts at p
SkipSpaces(s, p) ==
    IF p <= Len(s) /\ IsSpace(s[p]) THEN SkipSpaces(s, p + 1) ELSE p

NoMatch == [matched |-> FALSE, type |-> <<>>, scope |-> <<>>,
            breaking |-> FALSE, description |-> <<>>]

\* COMMIT_PATTERN =
\*   /^(?<type>[a-z]+)(?:\((?<scope>[^)]+)\))?(?<breaking>!)?\s*:\s*(?<description>.+)$/
\* matched left to right; every position is counted from 1, and an
\* unmatched scope group is the empty sequence.

\* (?<description>.+)$ at p: one character at least, none of them \n
MatchDescription(s, tl, scope, bang, p) ==
    IF p <= Len(s) /\ \A i \in p..Len(s) : s[i] # LF
    THEN [matched |-> TRUE, type |-> SubSeq(s, 1, tl), scope |-> scope,
          breaking |-> bang, description |-> SubSeq(s, p, Len(s))]
    ELSE NoMatch

\* :\s* at p
MatchColon(s, tl, scope, bang, p) ==
    IF p <= Len(s) /\ s[p] = ":"
    THEN MatchDescription(s, tl, scope, bang, SkipSpaces(s, p + 1))
    ELSE NoMatch

\* (?<breaking>!)?\s* at p
MatchBreaking(s, tl, scope, p) ==
    IF p <= Len(s) /\ s[p] = "!"
    THEN MatchColon(s, tl, scope, TRUE, SkipSpaces(s, p + 1))
    ELSE MatchColon(s, tl, scope, FALSE, SkipSpaces(s, p))

\* the position of the first ")" after p, or 0
FirstClose(s, p) ==
    IF \E q \in (p + 1)..Len(s) : s[q] = ")"
    THEN CHOOSE q \in (p + 1)..Len(s) :
             s[q] = ")" /\ \A r \in (p + 1)..(q - 1) : s[r] # ")"
    ELSE 0

\* (?:\((?<scope>[^)]+)\))? at p, where close is FirstClose(s, p): a "("
\* that opens no scope cannot be matched by what follows
MatchScope(s, tl, p, close) ==
    IF p <= Len(s) /\ s[p] = "("
    THEN IF close > p + 1
         THEN MatchBreaking(s, tl, SubSeq(s, p + 1, close - 1), close + 1)
         ELSE NoMatch
    ELSE MatchBreaking(s, tl, <<>>, p)

\* ^(?<type>[a-z]+): tl is the length of the longest run of [a-z] at the start
MatchType(s, tl) ==
    IF tl >= 1 THEN MatchScope(s, tl, tl + 1, FirstClose(s, tl + 1)) ELSE NoMatch

COMMIT_PATTERN(s) ==
    MatchType(s, Cardinality({n \in 1..Len(s) : \A i \in 1..n : IsLower(s[i])}))

BreakingPhrase ==
    <<"B", "R", "E", "A", "K", "I", "N", "G", " ", "C", "H", "A", "N", "G", "E">>

\* BREAKING_BODY_PATTERN = /BREAKING CHANGE[:\s]/i, tested anywhere in the body
BREAKING_BODY_PATTERN(body) ==
    \E i \in 1..Len(body) :
        /\ i + Len(BreakingPhrase) <= Len(body)
        /\ \A k \in 1..Len(BreakingPhrase) :
              UpperOf(body[i + k - 1]) = BreakingPhrase[k]
        /\ LET c == body[i + Len(BreakingPhrase)] IN c = ":" \/ IsSpace(c)

T_other == <<"o", "t", "h", "e", "r">>

Null == [null |-> TRUE]

\* the two return statements of parseCommit, m being the match of the
\* subject. type.toLowerCase() is the identity on [a-z]+; a null scope is
\* the empty sequence (the scope group never matches the empty string).
Classified(hash, subject, body, m) ==
    IF ~m.matched
    THEN [hash |-> hash, type |-> T_other, scope |-> <<>>,
          description |-> subject, body |-> body, breaking |-> FALSE,
          raw |-> subject]
    ELSE [hash |-> hash, type |-> m.type, scope |-> m.scope,
          description |-> Trim(m.description), body |-> Trim(body),
          breaking |-> (m.breaking \/ BREAKING_BODY_PATTERN(body)),
          raw |-> subject]

\* a parseCommit that returns null for a subject outside the grammar
ParseFields_DropsUnmatched(hash, subject, body) ==
    IF Len(subject) = 0 \/ ~COMMIT_PATTERN(subject).matched THEN Null
    ELSE Classified(hash, subject, body, COMMIT_PATTERN(subject))

\* parseCommit from its three trimmed fields on
ParseFields(hash, subject, body) ==
    IF Len(subject) = 0 THEN Null
    ELSE Classified(hash, subject, body, COMMIT_PATTERN(subject))

ParseParts(parts) ==
    ParseFields(Field(parts, 1), Field(parts, 2), Field(parts, 3))

\* parseCommit(raw): Null, or the classified commit
parseCommit(raw) == ParseParts(Split(raw, NUL))

\* filter(Boolean) on one element
Truthy(c) == IF c = Null THEN <<>> ELSE <<c>>

RECURSIVE parseCommits(_)
\* rawCommits.map(parseCommit).filter(Boolean)
parseCommits(rawCommits) ==
    IF Len(rawCommits) = 0 THEN <<>>
    ELSE Truthy(parseCommit(rawCommits[1])) \o parseCommits(Tail(rawCommits))

-----------------------------------------------------------------------------
(* changelog.js: hasBreakingChanges; bumper.js: determineBumpType          *)

T_feat == <<"f", "e", "a", "t">>

\* commits.some(c => c.breaking)
hasBreakingChanges(commits) == \E i \in 1..Len(commits) : commits[i].breaking

determineBumpType_FeatFirst(commits) ==
    LET types == {commits[i].type : i \in 1..Len(commits)}
    IN  IF T_feat \in types THEN "minor"
        ELSE IF hasBreakingChanges(commits) THEN "major"
        ELSE "patch"

determineBumpType(commits) ==
    LET types == {commits[i].type : i \in 1..Len(commits)}
    IN  IF hasBreakingChanges(commits) THEN "major"
        ELSE IF T_feat \in types THEN "minor"
        ELSE "patch"

-----------------------------------------------------------------------------
(* parser.js: COMMIT_TYPES; changelog.js: groupByType, generateChangelog   *)
(*                                                                         *)
(* A rendered document is its sequence of lines. A line is a tuple whose   *)
(* first element says how the line starts: <<"h1">> "# Changelog",         *)
(* <<"h2", version>> "## [version] - date", <<"h3", label>> "### label",   *)
(* <<"li", scope, description, hash7>> "- **scope**: description ([hash])", *)
(* <<"link", version, lastTag>> the reference link, <<"text", n>> a line   *)
(* of prose, <<"blank">> the empty line.                                   *)

COMMIT_TYPES ==
    << [type |-> <<"f", "e", "a", "t">>, label |-> "Features", order |-> 0],
       [type |-> <<"f", "i", "x">>, label |-> "Bug Fixes", order |-> 1],
       [type |-> <<"p", "e", "r", "f">>, label |-> "Performance", order |-> 2],
       [type |-> <<"r", "e", "f", "a", "c", "t", "o", "r">>,
        label |-> "Refactoring", order |-> 3],
       [type |-> <<"d", "o", "c", "s">>, label |-> "Documentation", order |-> 4],
       [type |-> <<"t", "e", "s", "t">>, label |-> "Tests", order |-> 5],
       [type |-> <<"c", "i">>, label |-> "CI / CD", order |-> 6],
       [type |-> <<"c", "h", "o", "r", "e">>, label |-> "Chores", order |-> 7],
       [type |-> <<"b", "u", "i", "l", "d">>, label |-> "Build System",
        order |-> 8],
       [type |-> <<"s", "t", "y", "l", "e">>, label |-> "Style", order |-> 9],
       [type |-> <<"r", "e", "v", "e", "r", "t">>, label |-> "Reverts",
        order |-> 10],
       [type |-> <<"o", "t", "h", "e", "r">>, label |-> "Other Changes",
        order |-> 11] >>

\* COMMIT_TYPES[type] is defined
KnownType(type) == \E i \in 1..Len(COMMIT_TYPES) : COMMIT_TYPES[i].type = type

TypeEntry(type) ==
    COMMIT_TYPES[CHOOSE i \in 1..Len(COMMIT_TYPES) : COMMIT_TYPES[i].type = type]

\* COMMIT_TYPES[a]?.order ?? 99
OrderOf(type) == IF KnownType(type) THEN TypeEntry(type).order ELSE 99

\* COMMIT_TYPES[type]?.label ?? 'Other'
LabelOf(type) == IF KnownType(type) THEN TypeEntry(type).label ELSE "Other"

\* the property names every object inherits from Object.prototype that a
\* type token ([a-z]+, or 'other') can spell
Inherited == { <<"c", "o", "n", "s", "t", "r", "u", "c", "t", "o", "r">> }

\* COMMIT_TYPES[commit.type] ? commit.type : 'other'; the lookup follows the
\* prototype chain, and the inherited constructor is truthy
GroupKey(commit) ==
    IF KnownType(commit.type) \/ commit.type \in Inherited THEN commit.type
    ELSE T_other

RECURSIVE SelectSeq2(_, _, _)
\* the subsequence of s whose elements satisfy Test(_, arg)
SelectSeq2(s, Test(_, _), arg) ==
    IF Len(s) = 0 THEN <<>>
    ELSE (IF Test(s[1], arg) THEN <<s[1]>> ELSE <<>>)
         \o SelectSeq2(Tail(s), Test, arg)

HasKey(commit, key) == GroupKey(commit) = key

RECURSIVE InsertionKeys(_, _)
\* the keys of the Map in insertion order: each key at its first commit
InsertionKeys(commits, seen) ==
    IF Len(commits) = 0 THEN <<>>
    ELSE LET k == GroupKey(commits[1])
         IN  IF k \in seen THEN InsertionKeys(Tail(commits), seen)
             ELSE <<k>> \o InsertionKeys(Tail(commits), seen \cup {k})

HasOrder(key, o) == OrderOf(key) = o

RECURSIVE SortByOrder(_, _)
\* the stable sort of the keys by orderA - orderB
SortByOrder(keys, orders) ==
    IF orders = {} THEN <<>>
    ELSE LET o == CHOOSE x \in orders : \A y \in orders : x <= y
         IN  SelectSeq2(keys, HasOrder, o) \o SortByOrder(keys, orders \ {o})

\* a groupByType that leaves the breaking commits out
groupByType_Remaining(commits) ==
    LET NotBreaking(c) == ~c.breaking
        rest == SelectSeq(commits, NotBreaking)
        keys == InsertionKeys(rest, {})
        sorted == SortByOrder(keys, {OrderOf(keys[i]) : i \in 1..Len(keys)})
    IN  [i \in 1..Len(sorted) |->
            [type |-> sorted[i],
             commits |-> SelectSeq2(rest, HasKey, sorted[i])]]

\* groupByType(commits): the entries [key, commits] of the sorted Map
groupByType(commits) ==
    LET keys == InsertionKeys(commits, {})
        sorted == SortByOrder(keys, {OrderOf(keys[i]) : i \in 1..Len(keys)})
    IN  [i \in 1..Len(sorted) |->
            [type |-> sorted[i],
             commits |-> SelectSeq2(commits, HasKey, sorted[i])]]

IsBreaking(commit, unused) == commit.breaking

\* collectBreakingChanges(commits): one bullet `${scope}${description}` each
collectBreakingChanges(commits) ==
    LET b == SelectSeq2(commits, IsBreaking, TRUE)
    IN  [i \in 1..Len(b) |-> <<"li", b[i].scope, b[i].description, <<>>>>]

\* commit.hash.slice(0, 7)
Hash7(hash) == SubSeq(hash, 1, IF Len(hash) < 7 THEN Len(hash) ELSE 7)

formatEntry(commit) ==
    <<"li", commit.scope, commit.description, Hash7(commit.hash)>>

RECURSIVE SectionLines(_)
\* the loop over the groups: heading, blank, the entries, blank
SectionLines(groups) ==
    IF Len(groups) = 0 THEN <<>>
    ELSE LET g == groups[1]
         IN  << <<"h3", LabelOf(g.type)>>, <<"blank">> >>
             \o [i \in 1..Len(g.commits) |-> formatEntry(g.commits[i])]
             \o << <<"blank">> >>
             \o SectionLines(Tail(groups))

generateChangelog(version, commits, sinceTag) ==
    LET groups == groupByType(commits)
        breaking == collectBreakingChanges(commits)
    IN  << <<"h2", version>>, <<"blank">> >>
        \o (IF Len(breaking) > 0
            THEN << <<"h3", "BREAKING CHANGES">>, <<"blank">> >>
                 \o breaking \o << <<"blank">> >>
            ELSE <<>>)
        \o SectionLines(groups)
        \o << <<"link", version, sinceTag>> >>

-----------------------------------------------------------------------------
(* bumper.js: readCurrentVersion, writeVersion, bump;                      *)
(* changelog.js: getLastTag, fetchCommitsSince, buildChangelog;            *)
(* releaser.js: writeChangelog; tagger.js: tagExists, createTag            *)

\* readCurrentVersion: a missing or unparsable file, or a manifest whose
\* version is absent or empty (!pkg.version), throws
readCurrentVersion ==
    IF pkg.state = "ok" /\ Len(pkg.version) > 0 THEN Returned(pkg.version)
    ELSE Thrown("ManifestUnreadable")

\* writeVersion(newVersion): the manifest with its version replaced
\* a writeVersion that stores the version with the v of the tag
writeVersion_WithV(newVersion) ==
    [state |-> "ok", version |-> <<"v">> \o newVersion]

writeVersion(newVersion) == [state |-> "ok", version |-> newVersion]

getLastTag == lastTag

fetchCommitsSince(tag) == since

\* bump, from calcNextVersion on; pkg is the manifest the call leaves behind
BumpTo(dryRun, commits, current, bumpType, next) ==
    IF ~next.ok
    THEN [ok |-> FALSE, err |-> "InvalidVersion", current |-> current,
          next |-> <<>>, bumpType |-> bumpType, commits |-> commits,
          pkg |-> pkg]
    ELSE [ok |-> TRUE, err |-> "", current |-> current, next |-> next.val,
          bumpType |-> bumpType, commits |-> commits,
          pkg |-> IF dryRun THEN pkg ELSE writeVersion(next.val)]

\* a bump that takes determineBumpType(commits) whatever force is
BumpWith_ComputedOnly(dryRun, force, commits, current, computed) ==
    IF ~current.ok
    THEN [ok |-> FALSE, err |-> "ManifestUnreadable", current |-> <<>>,
          next |-> <<>>, bumpType |-> "", commits |-> commits, pkg |-> pkg]
    ELSE BumpTo(dryRun, commits, current.val, computed,
                calcNextVersion(current.val, computed))

\* bump, from its fourth statement on: force || determineBumpType(commits)
BumpWith(dryRun, force, commits, current, computed) ==
    IF ~current.ok
    THEN [ok |-> FALSE, err |-> "ManifestUnreadable", current |-> <<>>,
          next |-> <<>>, bumpType |-> "", commits |-> commits, pkg |-> pkg]
    ELSE IF force # ""
    THEN BumpTo(dryRun, commits, current.val, force,
                calcNextVersion(current.val, force))
    ELSE BumpTo(dryRun, commits, current.val, computed,
                calcNextVersion(current.val, computed))

BumpCommits(dryRun, force, commits) ==
    BumpWith(dryRun, force, commits, readCurrentVersion,
             determineBumpType(commits))

\* bump({dryRun, force})
bump(dryRun, force) ==
    BumpCommits(dryRun, force, parseCommits(fetchCommitsSince(getLastTag)))

RenderFor(nextVersion, commits) ==
    [changelog |-> generateChangelog(nextVersion, commits, getLastTag),
     commits |-> commits,
     lastTag |-> getLastTag,
     breaking |-> hasBreakingChanges(commits)]

buildChangelog(nextVersion) ==
    RenderFor(nextVersion, parseCommits(fetchCommitsSince(getLastTag)))

\* the header of writeChangelog, which ends in an empty line
ChangelogHeader ==
    << <<"h1">>, <<"blank">>, <<"text", 1>>, <<"blank">>, <<"text", 2>>,
       <<"blank">> >>

\* the line starts with "#" / with "## "
StartsHash(line) == line[1] \in {"h1", "h2", "h3"}

StartsH2(line) == line[1] = "h2"

IsBlank(line) == line[1] = "blank"

\* content.replace(/^#[^\n]*\n[\s\S]*?(?=^## )/m, ''): the first line that
\* starts with "#" and is followed by a line starting with "## " is removed
\* together with everything up to the nearest such line
StripHeader(lines) ==
    LET cands == {i \in 1..Len(lines) :
                     /\ StartsHash(lines[i])
                     /\ \E j \in (i + 1)..Len(lines) : StartsH2(lines[j])}
    IN  IF cands = {} THEN lines
        ELSE LET i == CHOOSE x \in cands : \A y \in cands : x <= y
                 ends == {j \in (i + 1)..Len(lines) : StartsH2(lines[j])}
                 j == CHOOSE x \in ends : \A y \in ends : x <= y
             IN  SubSeq(lines, 1, i - 1) \o SubSeq(lines, j, Len(lines))

RECURSIVE TrimLines(_)
\* trim() on a text: the empty lines at its two ends go
TrimLines(lines) ==
    IF Len(lines) = 0 THEN lines
    ELSE IF IsBlank(lines[1]) THEN TrimLines(Tail(lines))
    ELSE IF IsBlank(lines[Len(lines)])
         THEN TrimLines(SubSeq(lines, 1, Len(lines) - 1))
    ELSE lines

\* writeChangelog(newSection, dryRun): file is CHANGELOG.md as the call
\* leaves it, lines is full.split('\n').length (the text ends in "\n")
\* a writeChangelog without its `if (!dryRun)`
writeChangelog_AlwaysWrites(file, newSection, dryRun) ==
    LET kept == IF file.exists THEN TrimLines(StripHeader(file.lines)) ELSE <<>>
        existing == IF Len(kept) > 0 THEN << <<"blank">> >> \o kept ELSE <<>>
        full == ChangelogHeader \o newSection \o existing
    IN  [file |-> [exists |-> TRUE, lines |-> full], lines |-> Len(full) + 1]

\* a writeChangelog that counts the lines of what it has written only
writeChangelog_CountsWritten(file, newSection, dryRun) ==
    LET kept == IF file.exists THEN TrimLines(StripHeader(file.lines)) ELSE <<>>
        existing == IF Len(kept) > 0 THEN << <<"blank">> >> \o kept ELSE <<>>
        full == ChangelogHeader \o newSection \o existing
    IN  [file |-> IF dryRun THEN file ELSE [exists |-> TRUE, lines |-> full],
         lines |-> IF dryRun THEN Len(newSection) + 1 ELSE Len(full) + 1]

writeChangelog(file, newSection, dryRun) ==
    LET kept == IF file.exists THEN TrimLines(StripHeader(file.lines)) ELSE <<>>
        existing == IF Len(kept) > 0 THEN << <<"blank">> >> \o kept ELSE <<>>
        full == ChangelogHeader \o newSection \o existing
    IN  [file |-> IF dryRun THEN file ELSE [exists |-> TRUE, lines |-> full],
         lines |-> Len(full) + 1]

\* createTag: version.startsWith('v') ? version : `v${version}`
TagName(version) ==
    IF StartsWith(version, <<"v">>) THEN version ELSE <<"v">> \o version

\* a tagExists that never finds the tag
tagExists_Never(tag) == FALSE

tagExists(tag) == tag \in tags

\* the record git log yields for the commit `chore(release): v<version>`
ReleaseRaw(version) ==
    <<"r", "e", "l", "0", "0", "0", "1", NUL,
      "c", "h", "o", "r", "e", "(", "r", "e", "l", "e", "a", "s", "e", ")",
      ":", " ", "v">> \o version \o <<NUL>>

-----------------------------------------------------------------------------
(* SpecVer: calcNextVersion applied to bounded inputs                      *)

MaxComps == 4

NotRun == [ok |-> FALSE, err |-> "NotRun", val |-> <<>>]

CompTokens ==
    { <<>>, <<"0">>, <<"1">>, <<"9">>, <<"0", "1">>, <<"-", "1">>, <<"x">> }

Prefixes == { <<>>, <<"v">>, <<"v", "v">> }

BumpInputs == {"major", "minor", "patch", "premajor"}

VerInput == vprefix \o Join(vparts, <<".">>)

VerStart ==
    /\ vparts \in {<<t>> : t \in CompTokens}
    /\ vprefix \in Prefixes
    /\ vkind = "patch"
    /\ vres = NotRun

VerIdle ==
    /\ vparts = <<>>
    /\ vprefix = <<>>
    /\ vkind = "patch"
    /\ vres = NotRun

VerAddComponent ==
    /\ vres = NotRun
    /\ Len(vparts) < MaxComps
    /\ \E t \in CompTokens : vparts' = Append(vparts, t)
    /\ UNCHANGED <<vprefix, vkind, vres, parseVars, bumpVars, relVars, renderVars, pairVars>>

VerCalc ==
    /\ vres = NotRun
    /\ \E k \in BumpInputs :
          /\ vkind' = k
          /\ vres' = calcNextVersion(VerInput, k)
    /\ UNCHANGED <<vparts, vprefix, parseVars, bumpVars, relVars, renderVars, pairVars>>

-----------------------------------------------------------------------------
(* SpecParse: parseCommit applied to raw records "hash\x00subject\x00body"  *)
(* whose subject is put together from a type, a scope, a breaking marker,  *)
(* a separator and a description, each present, absent or malformed.       *)

Hashes == { <<>>, <<"a", "b", "c", "1", "2", "3", "4", "d", "e", "f">> }

TypeParts ==
    { <<>>, <<"f", "e", "a", "t">>, <<"f", "i", "x">>, <<"F", "e", "a", "t">>,
      <<"z", "z", "z">>, <<" ", "f", "e", "a", "t">>,
      <<"j", "u", "s", "t", " ", "a", " ", "m", "e", "s", "s", "a", "g", "e">> }

ScopeParts ==
    { <<>>, <<"(", "a", "p", "i", ")">>, <<"(", ")">>, <<"(", "a", "p", "i">> }

BangParts == { <<>>, <<"!">> }

SepParts == { <<>>, <<":">>, <<":", " ">>, <<" ", ":", " ">> }

DescParts == { <<>>, <<"x">>, <<"d", "r", "o", "p", " ", "A", "P", "I">> }

Bodies ==
    { <<>>,
      <<"B", "R", "E", "A", "K", "I", "N", "G", " ", "C", "H", "A", "N", "G",
        "E", ":", " ", "x">>,
      <<"b", "r", "e", "a", "k", "i", "n", "g", " ", "c", "h", "a", "n", "g",
        "e", " ", "x">>,
      <<"B", "R", "E", "A", "K", "I", "N", "G", " ", "C", "H", "A", "N", "G",
        "E">>,
      <<"n", "o", " ", "b", "r", "e", "a", "k", "i", "n", "g", " ", "c", "h",
        "a", "n", "g", "e", "s", " ", "h", "e", "r", "e">> }

RawRecord(hash, subject, body) == hash \o <<NUL>> \o subject \o <<NUL>> \o body

ParseStart ==
    /\ phash \in Hashes
    /\ psubj = <<>>
    /\ pbody = <<>>
    /\ pstage = "subject"
    /\ pres = Null

ParseIdle ==
    /\ phash = <<>>
    /\ psubj = <<>>
    /\ pbody = <<>>
    /\ pstage = "idle"
    /\ pres = Null

ParsePickSubject ==
    /\ pstage = "subject"
    /\ \E t \in TypeParts, sc \in ScopeParts, b \in BangParts,
          sep \in SepParts, d \in DescParts :
          psubj' = t \o sc \o b \o sep \o d
    /\ pstage' = "body"
    /\ UNCHANGED <<phash, pbody, pres, verVars, bumpVars, relVars, renderVars, pairVars>>

ParsePickBody ==
    /\ pstage = "body"
    /\ pbody' \in Bodies
    /\ pstage' = "ready"
    /\ UNCHANGED <<phash, psubj, pres, verVars, bumpVars, relVars, renderVars, pairVars>>

ParseRun ==
    /\ pstage = "ready"
    /\ pres' = parseCommit(RawRecord(phash, psubj, pbody))
    /\ pstage' = "done"
    /\ UNCHANGED <<phash, psubj, pbody, verVars, bumpVars, relVars, renderVars, pairVars>>

-----------------------------------------------------------------------------
(* SpecBump: determineBumpType applied to sequences of classified commits  *)

MaxCommits == 3

SampleRaws ==
    { \* abc1234def\0feat: x\0
      <<"a", "b", "c", "1", "2", "3", "4", "d", "e", "f", NUL,
        "f", "e", "a", "t", ":", " ", "x", NUL>>,
      \* abc1234def\0fix(api): x\0
      <<"a", "b", "c", "1", "2", "3", "4", "d", "e", "f", NUL,
        "f", "i", "x", "(", "a", "p", "i", ")", ":", " ", "x", NUL>>,
      \* abc1234def\0feat!: drop API\0
      <<"a", "b", "c", "1", "2", "3", "4", "d", "e", "f", NUL,
        "f", "e", "a", "t", "!", ":", " ", "d", "r", "o", "p", " ", "A", "P",
        "I", NUL>>,
      \* abc1234def\0docs: x\0BREAKING CHANGE: x
      <<"a", "b", "c", "1", "2", "3", "4", "d", "e", "f", NUL,
        "d", "o", "c", "s", ":", " ", "x", NUL,
        "B", "R", "E", "A", "K", "I", "N", "G", " ", "C", "H", "A", "N", "G",
        "E", ":", " ", "x">>,
      \* abc1234def\0just a message\0
      <<"a", "b", "c", "1", "2", "3", "4", "d", "e", "f", NUL,
        "j", "u", "s", "t", " ", "a", " ", "m", "e", "s", "s", "a", "g", "e",
        NUL>> }

SampleCommits == {parseCommit(r) : r \in SampleRaws}

BumpStart ==
    /\ bcommits = <<>>
    /\ bres = "none"

BumpIdle ==
    /\ bcommits = <<>>
    /\ bres = "idle"

BumpAddCommit ==
    /\ bres = "none"
    /\ Len(bcommits) < MaxCommits
    /\ \E c \in SampleCommits : bcommits' = Append(bcommits, c)
    /\ UNCHANGED <<bres, verVars, parseVars, relVars, renderVars, pairVars>>

BumpDecide ==
    /\ bres = "none"
    /\ bres' = determineBumpType(bcommits)
    /\ UNCHANGED <<bcommits, verVars, parseVars, relVars, renderVars, pairVars>>

-----------------------------------------------------------------------------
(* Spec: the commands release, bump and changelog run against a manifest,  *)
(* a changelog file and a repository, after the developer has added        *)
(* commits. A command in progress is never interleaved with anything.      *)

MaxDev == 2

Forces == {"", "major", "minor", "patch", "premajor"}

V123 == <<"1", ".", "2", ".", "3">>

PkgInits ==
    { [state |-> "missing", version |-> <<>>],
      [state |-> "unparsable", version |-> <<>>],
      [state |-> "ok", version |-> <<>>],
      [state |-> "ok", version |-> V123],
      [state |-> "ok", version |-> <<"1", ".", "2">>],
      [state |-> "ok", version |-> <<"1", ".", ".", "3">>] }

NoFile == [exists |-> FALSE, lines |-> <<>>]

\* the file the tool wrote when 1.2.3 was released
PriorFile ==
    [exists |-> TRUE,
     lines |-> ChangelogHeader
               \o << <<"h2", V123>>, <<"blank">>, <<"h3", "Features">>,
                     <<"blank">>, <<"li", <<>>, <<"x">>, <<>>>>, <<"blank">>,
                     <<"link", V123, <<>>>> >>]

ClogInits == {NoFile, PriorFile}

TagInits ==
    { [tags |-> {}, last |-> <<>>],
      [tags |-> {TagName(V123)}, last |-> TagName(V123)],
      [tags |-> {TagName(V123), <<"v", "1", ".", "2", ".", "4">>},
       last |-> TagName(V123)] }

DevRaws ==
    { \* abc1234def\0feat: x\0
      <<"a", "b", "c", "1", "2", "3", "4", "d", "e", "f", NUL,
        "f", "e", "a", "t", ":", " ", "x", NUL>>,
      \* abc1234def\0fix(api): x\0
      <<"a", "b", "c", "1", "2", "3", "4", "d", "e", "f", NUL,
        "f", "i", "x", "(", "a", "p", "i", ")", ":", " ", "x", NUL>>,
      \* abc1234def\0feat!: drop API\0
      <<"a", "b", "c", "1", "2", "3", "4", "d", "e", "f", NUL,
        "f", "e", "a", "t", "!", ":", " ", "d", "r", "o", "p", " ", "A", "P",
        "I", NUL>> }

NoRun ==
    [cmd |-> "", dryRun |-> FALSE, force |-> "", push |-> FALSE,
     current |-> <<>>, next |-> <<>>, bumpType |-> "",
     changelog |-> <<>>, lines |-> 0, tag |-> <<>>, pushed |-> FALSE,
     err |-> ""]

RelStart ==
    /\ pkg \in PkgInits
    /\ clog \in ClogInits
    /\ since = <<>>
    /\ relCommits = <<>>
    /\ \E t \in TagInits : tags = t.tags /\ lastTag = t.last
    /\ remote \in BOOLEAN
    /\ remoteTags = {}
    /\ pc = "idle"
    /\ run = NoRun
    /\ devs = 0

RelIdle ==
    /\ pkg = [state |-> "missing", version |-> <<>>]
    /\ clog = NoFile
    /\ since = <<>>
    /\ relCommits = <<>>
    /\ tags = {}
    /\ lastTag = <<>>
    /\ remote = FALSE
    /\ remoteTags = {}
    /\ pc = "off"
    /\ run = NoRun
    /\ devs = 0

\* the developer commits
DevCommit ==
    /\ pc = "idle"
    /\ devs < MaxDev
    /\ \E r \in DevRaws : since' = <<r>> \o since
    /\ devs' = devs + 1
    /\ UNCHANGED <<pc, run>>
    /\ UNCHANGED <<pkg, clog, relCommits, tags, lastTag, remote, remoteTags, verVars, parseVars, bumpVars, renderVars, pairVars>>

\* the values a command takes from bump()
Bumped(cmd, dryRun, force, push, b) ==
    [NoRun EXCEPT !.cmd = cmd, !.dryRun = dryRun, !.force = force,
                  !.push = push, !.current = b.current, !.next = b.next,
                  !.bumpType = b.bumpType, !.err = b.err]

\* release({dryRun, force, push}), step 1: bump({dryRun, force})
ReleaseBumpWith(dryRun, force, push) ==
    /\ pc = "idle"
    /\ LET b == bump(dryRun, force)
       IN  /\ run' = Bumped("release", dryRun, force, push, b)
           /\ pkg' = b.pkg
           /\ pc' = IF b.ok THEN "changelog" ELSE "failed"
    /\ UNCHANGED <<clog, since, relCommits, tags, lastTag, remote, remoteTags,
                   devs, verVars, parseVars, bumpVars, renderVars, pairVars>>

\* release is started with any options
ReleaseBump ==
    \E dryRun \in BOOLEAN, force \in Forces, push \in BOOLEAN :
        ReleaseBumpWith(dryRun, force, push)

\* release, step 2: buildChangelog(next)
ReleaseBuildChangelog ==
    /\ pc = "changelog"
    /\ run' = [run EXCEPT !.changelog = buildChangelog(run.next).changelog]
    /\ pc' = "write"
    /\ UNCHANGED <<extVars, remote, devs, verVars, parseVars,
                   bumpVars, renderVars, pairVars>>

\* release, step 3: writeChangelog(changelog, dryRun)
ReleaseWriteChangelog ==
    /\ pc = "write"
    /\ LET w == writeChangelog(clog, run.changelog, run.dryRun)
       IN  /\ clog' = w.file
           /\ run' = [run EXCEPT !.lines = w.lines]
    /\ pc' = "commit"
    /\ UNCHANGED <<pkg, since, relCommits, tags, lastTag, remote, remoteTags,
                   devs, verVars, parseVars, bumpVars, renderVars, pairVars>>

\* release, step 4: commitRelease(next, dryRun); git may refuse the commit
ReleaseCommit ==
    /\ pc = "commit"
    /\ \/ /\ run.dryRun
          /\ pc' = "tag"
          /\ UNCHANGED <<since, relCommits, run>>
       \/ /\ ~run.dryRun
          /\ since' = <<ReleaseRaw(run.next)>> \o since
          /\ relCommits' = Append(relCommits, run.next)
          /\ pc' = "tag"
          /\ UNCHANGED run
       \/ /\ ~run.dryRun
          /\ run' = [run EXCEPT !.err = "CommitFailed"]
          /\ pc' = "failed"
          /\ UNCHANGED <<since, relCommits>>
    /\ UNCHANGED <<pkg, clog, tags, lastTag, remote, remoteTags, devs,
                   verVars, parseVars, bumpVars, renderVars, pairVars>>

\* a tagging step that restores the manifest when the tag exists
ReleaseCreateTag_RollsBack ==
    /\ pc = "tag"
    /\ LET tag == TagName(run.next)
       IN  IF tagExists(tag)
           THEN /\ run' = [run EXCEPT !.err = "TagAlreadyExists"]
                /\ pc' = "failed"
                /\ pkg' = IF run.dryRun THEN pkg ELSE writeVersion(run.current)
                /\ UNCHANGED <<tags, lastTag, since>>
           ELSE /\ run' = [run EXCEPT !.tag = tag]
                /\ pc' = "push"
                /\ pkg' = pkg
                /\ IF run.dryRun THEN UNCHANGED <<tags, lastTag, since>>
                   ELSE /\ tags' = tags \cup {tag}
                        /\ lastTag' = tag
                        /\ since' = <<>>
    /\ UNCHANGED <<clog, relCommits, remote, remoteTags, devs,
                   verVars, parseVars, bumpVars, renderVars, pairVars>>

\* release, step 5, tag() first half: createTag(version, message, dryRun)
ReleaseCreateTag ==
    /\ pc = "tag"
    /\ LET tag == TagName(run.next)
       IN  IF tagExists(tag)
           THEN /\ run' = [run EXCEPT !.err = "TagAlreadyExists"]
                /\ pc' = "failed"
                /\ UNCHANGED <<tags, lastTag, since>>
           ELSE /\ run' = [run EXCEPT !.tag = tag]
                /\ pc' = "push"
                /\ IF run.dryRun THEN UNCHANGED <<tags, lastTag, since>>
                   ELSE /\ tags' = tags \cup {tag}
                        /\ lastTag' = tag
                        /\ since' = <<>>
    /\ UNCHANGED <<pkg, clog, relCommits, remote, remoteTags, devs,
                   verVars, parseVars, bumpVars, renderVars, pairVars>>

\* a push step without the hasRemote() test
ReleasePush_IgnoresRemote ==
    /\ pc = "push"
    /\ \/ /\ ~run.push
          /\ run' = [run EXCEPT !.pushed = FALSE]
          /\ pc' = "done"
          /\ UNCHANGED remoteTags
       \/ /\ run.push /\ run.dryRun
          /\ run' = [run EXCEPT !.pushed = TRUE]
          /\ pc' = "done"
          /\ UNCHANGED remoteTags
       \/ /\ run.push /\ ~run.dryRun
          /\ remoteTags' = remoteTags \cup {run.tag}
          /\ run' = [run EXCEPT !.pushed = TRUE]
          /\ pc' = "done"
       \/ /\ run.push /\ ~run.dryRun
          /\ run' = [run EXCEPT !.err = "PushFailure"]
          /\ pc' = "failed"
          /\ UNCHANGED remoteTags
    /\ UNCHANGED <<pkg, clog, since, relCommits, tags, lastTag, remote, devs,
                   verVars, parseVars, bumpVars, renderVars, pairVars>>

\* release, step 5, tag() second half: hasRemote, pushTag; git push may fail
ReleasePush ==
    /\ pc = "push"
    /\ \/ /\ ~run.push \/ ~remote
          /\ run' = [run EXCEPT !.pushed = FALSE]
          /\ pc' = "done"
          /\ UNCHANGED remoteTags
       \/ /\ run.push /\ remote /\ run.dryRun
          /\ run' = [run EXCEPT !.pushed = TRUE]
          /\ pc' = "done"
          /\ UNCHANGED remoteTags
       \/ /\ run.push /\ remote /\ ~run.dryRun
          /\ remoteTags' = remoteTags \cup {run.tag}
          /\ run' = [run EXCEPT !.pushed = TRUE]
          /\ pc' = "done"
       \/ /\ run.push /\ remote /\ ~run.dryRun
          /\ run' = [run EXCEPT !.err = "PushFailure"]
          /\ pc' = "failed"
          /\ UNCHANGED remoteTags
    /\ UNCHANGED <<pkg, clog, since, relCommits, tags, lastTag, remote, devs, verVars, parseVars, bumpVars, renderVars, pairVars>>

\* bumpCommand({dryRun, force})
BumpCommand ==
    /\ pc = "idle"
    /\ \E dryRun \in BOOLEAN, force \in Forces :
          LET b == bump(dryRun, force)
          IN  /\ run' = Bumped("bump", dryRun, force, FALSE, b)
              /\ pkg' = b.pkg
              /\ pc' = IF b.ok THEN "done" ELSE "failed"
    /\ UNCHANGED <<clog, since, relCommits, tags, lastTag, remote, remoteTags,
                   devs, verVars, parseVars, bumpVars, renderVars, pairVars>>

\* changelogCommand({json}): what it prints is kept in run
ChangelogCommand ==
    /\ pc = "idle"
    /\ LET commits == parseCommits(fetchCommitsSince(getLastTag))
           current == readCurrentVersion
           bumpType == determineBumpType(commits)
           next == calcNextVersion(current.val, bumpType)
           err == IF ~current.ok THEN "ManifestUnreadable"
                  ELSE IF ~next.ok THEN "InvalidVersion" ELSE ""
       IN  /\ run' = [NoRun EXCEPT
                         !.cmd = "changelog", !.dryRun = FALSE,
                         !.current = current.val, !.next = next.val,
                         !.bumpType = bumpType,
                         !.changelog = IF err = ""
                                       THEN buildChangelog(next.val).changelog
                                       ELSE <<>>,
                         !.err = err]
           /\ pc' = IF err = "" THEN "done" ELSE "failed"
    /\ UNCHANGED <<extVars, remote, devs, verVars, parseVars, bumpVars, renderVars, pairVars>>

-----------------------------------------------------------------------------
(* SpecSeq: release run again and again on the files and the repository    *)
(* the previous release left behind, starting from changelog files with    *)
(* and without the header.                                                 *)

MaxRels == 2

MaxSeqDev == 1

SeqForces == {"", "minor"}

V122 == <<"1", ".", "2", ".", "2">>

\* a release section as generateChangelog renders it for one feat commit
OldSection(version) ==
    << <<"h2", version>>, <<"blank">>, <<"h3", "Features">>, <<"blank">>,
       <<"li", <<>>, <<"x">>, <<>>>>, <<"blank">>, <<"link", version, <<>>>> >>

\* the file after the tool released 1.2.2 and 1.2.3
TwoFile ==
    [exists |-> TRUE,
     lines |-> ChangelogHeader \o OldSection(V123) \o << <<"blank">> >>
               \o OldSection(V122)]

\* hand-kept files that begin with their first version section
BareFile == [exists |-> TRUE, lines |-> OldSection(V123)]

BareTwoFile ==
    [exists |-> TRUE,
     lines |-> OldSection(V123) \o << <<"blank">> >> \o OldSection(V122)]

SeqClogs == {NoFile, PriorFile, TwoFile, BareFile, BareTwoFile}

SeqStart ==
    /\ pkg = [state |-> "ok", version |-> V123]
    /\ clog \in SeqClogs
    /\ since = <<>>
    /\ relCommits = <<>>
    /\ \E t \in TagInits : tags = t.tags /\ lastTag = t.last
    /\ remote \in BOOLEAN
    /\ remoteTags = {}
    /\ pc = "idle"
    /\ run = NoRun
    /\ devs = 0

SeqDevCommit == devs < MaxSeqDev /\ DevCommit

SeqReleaseBump ==
    \E dryRun \in BOOLEAN, force \in SeqForces, push \in BOOLEAN :
        ReleaseBumpWith(dryRun, force, push)

\* the command has returned and release-pilot is started once more
ReleaseAgain ==
    /\ pc = "done"
    /\ run.cmd = "release"
    /\ Len(relCommits) < MaxRels
    /\ pc' = "idle"
    /\ run' = NoRun
    /\ UNCHANGED <<extVars, remote, devs, verVars, parseVars, bumpVars, renderVars, pairVars>>

-----------------------------------------------------------------------------
(* SpecRender: parseCommits on a list of raw records, then                 *)
(* generateChangelog on the commits it returned.                           *)

MaxRaws == 3

H == <<"a", "b", "c", "1", "2", "3", "4", "d", "e", "f", NUL>>

RenderRaws ==
    { \* feat: x
      H \o <<"f", "e", "a", "t", ":", " ", "x", NUL>>,
      \* feat!: y
      H \o <<"f", "e", "a", "t", "!", ":", " ", "y", NUL>>,
      \* fix(api): z
      H \o <<"f", "i", "x", "(", "a", "p", "i", ")", ":", " ", "z", NUL>>,
      \* docs: d, with the body BREAKING CHANGE: b
      H \o <<"d", "o", "c", "s", ":", " ", "d", NUL,
             "B", "R", "E", "A", "K", "I", "N", "G", " ", "C", "H", "A", "N",
             "G", "E", ":", " ", "b">>,
      \* wip: w
      H \o <<"w", "i", "p", ":", " ", "w", NUL>>,
      \* constructor: c
      H \o <<"c", "o", "n", "s", "t", "r", "u", "c", "t", "o", "r", ":", " ",
             "c", NUL>>,
      \* Fix it
      H \o <<"F", "i", "x", " ", "i", "t", NUL>>,
      \* an empty subject, with a body
      H \o <<NUL, "b">>,
      \* a subject of one space
      H \o <<" ", NUL>>,
      \* the hash alone
      <<"a", "b", "c">> }

RenderTags == { <<>>, <<"v", "1", ".", "2", ".", "2">> }

RenderStart ==
    /\ rraws = <<>>
    /\ rparsed = <<>>
    /\ rdoc = <<>>
    /\ rstage = "raws"

RenderIdle ==
    /\ rraws = <<>>
    /\ rparsed = <<>>
    /\ rdoc = <<>>
    /\ rstage = "idle"

RenderAddRaw ==
    /\ rstage = "raws"
    /\ Len(rraws) < MaxRaws
    /\ \E r \in RenderRaws : rraws' = Append(rraws, r)
    /\ UNCHANGED <<rparsed, rdoc, rstage, verVars, parseVars, bumpVars,
                   relVars, pairVars>>

RenderParse ==
    /\ rstage = "raws"
    /\ rparsed' = parseCommits(rraws)
    /\ rstage' = "parsed"
    /\ UNCHANGED <<rraws, rdoc, verVars, parseVars, bumpVars, relVars, pairVars>>

RenderGenerate ==
    /\ rstage = "parsed"
    /\ \E t \in RenderTags : rdoc' = generateChangelog(V123, rparsed, t)
    /\ rstage' = "rendered"
    /\ UNCHANGED <<rraws, rparsed, verVars, parseVars, bumpVars, relVars, pairVars>>

-----------------------------------------------------------------------------
(* SpecPair: release --dry-run, then release with the same options and     *)
(* without --dry-run, on the files and repository the dry run found.       *)

PairIdle == dry = NoRun

PairDevCommit == dry = NoRun /\ DevCommit

\* release --dry-run is started
PairRehearse ==
    /\ dry = NoRun
    /\ \E force \in Forces, push \in BOOLEAN : ReleaseBumpWith(TRUE, force, push)

\* the dry run has ended, its report is kept
PairRepeat ==
    /\ pc \in {"done", "failed"}
    /\ dry = NoRun
    /\ dry' = run
    /\ pc' = "idle"
    /\ run' = NoRun
    /\ UNCHANGED <<extVars, remote, devs, verVars, parseVars, bumpVars,
                   renderVars>>

\* release is started with the options of the dry run
PairRelease ==
    /\ dry # NoRun
    /\ ReleaseBumpWith(FALSE, dry.force, dry.push)

-----------------------------------------------------------------------------
(* Specifications                                                          *)

VerInit == VerStart /\ ParseIdle /\ BumpIdle /\ RelIdle /\ RenderIdle /\ PairIdle

VerNext == VerAddComponent \/ VerCalc

SpecVer == VerInit /\ [][VerNext]_vars

ParseInit == ParseStart /\ VerIdle /\ BumpIdle /\ RelIdle /\ RenderIdle /\ PairIdle

ParseNext == ParsePickSubject \/ ParsePickBody \/ ParseRun

SpecParse == ParseInit /\ [][ParseNext]_vars

BumpInit == BumpStart /\ VerIdle /\ ParseIdle /\ RelIdle /\ RenderIdle /\ PairIdle

BumpNext == BumpAddCommit \/ BumpDecide

SpecBump == BumpInit /\ [][BumpNext]_vars

Init == RelStart /\ VerIdle /\ ParseIdle /\ BumpIdle /\ RenderIdle /\ PairIdle

Next ==
    \/ DevCommit
    \/ ReleaseBump
    \/ ReleaseBuildChangelog
    \/ ReleaseWriteChangelog
    \/ ReleaseCommit
    \/ ReleaseCreateTag
    \/ ReleasePush
    \/ BumpCommand
    \/ ChangelogCommand

Spec == Init /\ [][Next]_vars

RenderInit ==
    RenderStart /\ VerIdle /\ ParseIdle /\ BumpIdle /\ RelIdle /\ PairIdle

RenderNext == RenderAddRaw \/ RenderParse \/ RenderGenerate

SpecRender == RenderInit /\ [][RenderNext]_vars

PairInit == RelStart /\ VerIdle /\ ParseIdle /\ BumpIdle /\ RenderIdle /\ PairIdle

PairNext ==
    \/ PairDevCommit
    \/ PairRehearse
    \/ PairRepeat
    \/ PairRelease
    \/ ReleaseBuildChangelog
    \/ ReleaseWriteChangelog
    \/ ReleaseCommit
    \/ ReleaseCreateTag
    \/ ReleasePush

SpecPair == PairInit /\ [][PairNext]_vars

SeqInit == SeqStart /\ VerIdle /\ ParseIdle /\ BumpIdle /\ RenderIdle /\ PairIdle

SeqNext ==
    \/ SeqDevCommit
    \/ SeqReleaseBump
    \/ ReleaseBuildChangelog
    \/ ReleaseWriteChangelog
    \/ ReleaseCommit
    \/ ReleaseCreateTag
    \/ ReleasePush
    \/ ReleaseAgain

SpecSeq == SeqInit /\ [][SeqNext]_vars

-----------------------------------------------------------------------------
(* Claims                                                                  *)

\* what the subject and the body of the record under parse are, read
\* directly off the inputs
SubjectMatchesGrammar == COMMIT_PATTERN(Trim(psubj)).matched

BodyCarriesPhrase == BREAKING_BODY_PATTERN(Trim(pbody))

\* C3: parseCommit sets isBreaking whenever the body carries BREAKING CHANGE
\* followed by a colon or whitespace, whether or not the subject matches the
\* grammar; an unmatched subject yields category other, the trimmed subject
\* as description, and isBreaking exactly when the body carries the phrase.
C3_BodyPhraseForcesBreaking ==
    (pstage = "done" /\ pres # Null) =>
        /\ BodyCarriesPhrase => pres.breaking
        /\ ~SubjectMatchesGrammar =>
              /\ pres.type = T_other
              /\ pres.description = Trim(psubj)
              /\ pres.breaking = BodyCarriesPhrase

RECURSIVE Orderings(_)
\* the sequences that list the elements of the index set S once each
Orderings(S) ==
    IF S = {} THEN {<<>>}
    ELSE UNION {{<<i>> \o q : q \in Orderings(S \ {i})} : i \in S}

\* C2: determineBumpType returns major iff some commit is breaking, otherwise
\* minor iff some commit has type feat, otherwise patch (the empty sequence
\* included), and the result is the same for every reordering of the commits.
C2_BumpPolicy ==
    bres \notin {"none", "idle"} =>
        LET anyBreaking == \E i \in 1..Len(bcommits) : bcommits[i].breaking
            anyFeat == \E i \in 1..Len(bcommits) : bcommits[i].type = T_feat
        IN  /\ (bres = "major") <=> anyBreaking
            /\ ~anyBreaking => ((bres = "minor") <=> anyFeat)
            /\ (~anyBreaking /\ ~anyFeat) => bres = "patch"
            /\ \A q \in Orderings(1..Len(bcommits)) :
                  determineBumpType([k \in 1..Len(bcommits) |-> bcommits[q[k]]])
                      = bres

\* a feat commit first and a breaking commit last still give major
C2_Witness ==
    /\ bres = "major"
    /\ Len(bcommits) = 3
    /\ bcommits[1].type = T_feat /\ ~bcommits[1].breaking
    /\ ~bcommits[2].breaking
    /\ bcommits[3].breaking /\ bcommits[3].type # T_feat

\* the input is three non-negative integer numerals, with at most one
\* leading v
WellFormedInput ==
    /\ vprefix \in {<<>>, <<"v">>}
    /\ Len(vparts) = 3
    /\ \A i \in 1..3 : Len(vparts[i]) > 0 /\ AllDigits(vparts[i])

\* C5: for a current version M.m.p of three non-negative integers, with or
\* without one leading v, calcNextVersion returns (M+1).0.0 for major,
\* M.(m+1).0 for minor and M.m.(p+1) for patch; the result does not start
\* with v and its components carry no leading zeros.
C5_NextVersion ==
    (vres # NotRun /\ WellFormedInput /\ vkind \in {"major", "minor", "patch"}) =>
        LET M == DecVal(vparts[1])
            m == DecVal(vparts[2])
            p == DecVal(vparts[3])
            want == CASE vkind = "major" -> <<M + 1, 0, 0>>
                      [] vkind = "minor" -> <<M, m + 1, 0>>
                      [] vkind = "patch" -> <<M, m, p + 1>>
            out == Split(vres.val, ".")
        IN  /\ vres.ok
            /\ Len(out) = 3
            /\ \A i \in 1..3 :
                  /\ Len(out[i]) > 0 /\ AllDigits(out[i])
                  /\ Len(out[i]) = 1 \/ out[i][1] # "0"
                  /\ DecVal(out[i]) = want[i]

\* v01.9.9 bumped minor is 1.10.0
C5_Witness ==
    /\ vprefix = <<"v">>
    /\ vparts = << <<"0", "1">>, <<"9">>, <<"9">> >>
    /\ vkind = "minor"
    /\ vres = Returned(<<"1", ".", "1", "0", ".", "0">>)

\* C6: calcNextVersion fails, and returns no version, for every current
\* string that after stripping one optional leading v is not exactly three
\* dot-separated non-negative integer numerals.
C6_InvalidRejected ==
    (vres # NotRun /\ ~WellFormedInput) => (~vres.ok /\ vres.val = <<>>)

-----------------------------------------------------------------------------
(* Claims about the commands (Spec)                                        *)

Kinds == {"major", "minor", "patch"}

\* the version in the heading of the first release section of the file
TopVersion(file) ==
    LET heads == {i \in 1..Len(file.lines) : StartsH2(file.lines[i])}
    IN  IF heads = {} THEN <<>>
        ELSE file.lines[CHOOSE i \in heads : \A j \in heads : i <= j][2]

\* the lines of a rendered section that do not spell the version
Sections(lines) ==
    LET NoVersion(line, unused) == line[1] \notin {"h2", "link"}
    IN  SelectSeq2(lines, NoVersion, TRUE)

\* C1: no step of a dry-run release, of a dry-run bump or of changelog
\* changes the manifest, the changelog file, the commits, the tags or the
\* remote, whether the command completes or aborts.
C1_DryRunMutatesNothing ==
    [][(run'.dryRun \/ run'.cmd = "changelog") =>
           /\ pkg' = pkg
           /\ clog' = clog
           /\ since' = since
           /\ relCommits' = relCommits
           /\ tags' = tags
           /\ lastTag' = lastTag
           /\ remoteTags' = remoteTags]_vars

\* a dry-run release of 1.2.3 with a remote has run to its end: it reports
\* the tag as pushed, and nothing was written, committed or tagged
C1_Witness ==
    /\ pc = "done" /\ run.cmd = "release" /\ run.dryRun /\ run.pushed
    /\ run.next # run.current /\ run.lines > 0
    /\ pkg.version = run.current
    /\ run.tag \notin tags
    /\ relCommits = <<>>

\* C4: with an override in {major, minor, patch}, bump and release use the
\* override as the bump kind whatever the commits are, and the next version
\* is that increment of the current one; the rendered sections are those of
\* the commits, the same as without the override (only the version in the
\* heading and in the link is the next version), so a breaking commit still
\* gets its BREAKING CHANGES section under the override patch.
C4_OverrideWins ==
    LET commits == parseCommits(since)
        computed == calcNextVersion(run.current, determineBumpType(commits))
    IN  /\ (pc \in {"changelog", "write"} /\ run.force \in Kinds) =>
              /\ run.bumpType = run.force
              /\ run.next = calcNextVersion(run.current, run.force).val
           \* bump has no further step, so since is what bump read
        /\ (pc = "done" /\ run.cmd = "bump" /\ run.force \in Kinds) =>
              /\ run.bumpType = run.force
              /\ run.next = calcNextVersion(run.current, run.force).val
        /\ (pc = "write" /\ run.force \in Kinds) =>
              /\ run.changelog = generateChangelog(run.next, commits, lastTag)
              /\ computed.ok
              /\ Sections(run.changelog)
                     = Sections(generateChangelog(computed.val, commits, lastTag))
              /\ hasBreakingChanges(commits) =>
                     \E i \in 1..Len(run.changelog) :
                         run.changelog[i] = <<"h3", "BREAKING CHANGES">>

\* 1.2.3 with a breaking commit and --force patch: 1.2.4, section rendered
C4_Witness ==
    /\ pc = "write" /\ run.cmd = "release" /\ run.force = "patch"
    /\ hasBreakingChanges(parseCommits(since))
    /\ run.current = V123
    /\ run.next = <<"1", ".", "2", ".", "4">>
    /\ run.changelog[3] = <<"h3", "BREAKING CHANGES">>

\* s is three dot-separated non-negative integer numerals after at most one
\* leading v
IsSemver(s) ==
    LET comps == Split(StripV(s), ".")
    IN  /\ Len(comps) = 3
        /\ \A i \in 1..3 : Len(comps[i]) > 0 /\ AllDigits(comps[i])

\* C7: a release or bump that is no dry run and finds the manifest missing,
\* unparsable, without version, or with an invalid version string aborts
\* with an error, and has changed nothing when it does.
C7_BadManifestAborts ==
    (run.cmd \in {"release", "bump"} /\ ~run.dryRun /\ ~IsSemver(run.current)) =>
        /\ pc = "failed"
        /\ run.err \in {"ManifestUnreadable", "InvalidVersion"}
        /\ pkg.version = run.current
        /\ relCommits = <<>>

\* C8: when the tagging step starts and the tag v<next> exists, the release
\* fails with TagAlreadyExists and the tags are left as they are; otherwise
\* the step succeeds and creates the tag unless the run is a dry run. The
\* check is made under dry-run too: a dry-run release whose version was
\* computed fails with TagAlreadyExists exactly when the tag exists.
C8_TagExistsFails ==
    /\ [][pc = "tag" =>
            IF TagName(run.next) \in tags
            THEN /\ pc' = "failed"
                 /\ run'.err = "TagAlreadyExists"
                 /\ tags' = tags /\ lastTag' = lastTag
                 /\ remoteTags' = remoteTags
            ELSE /\ pc' = "push"
                 /\ run'.err = ""
                 /\ tags' = IF run.dryRun THEN tags
                            ELSE tags \cup {TagName(run.next)}]_vars
    /\ [](/\ (run.cmd = "release" /\ run.dryRun /\ pc \in {"push", "done"}) =>
                 TagName(run.next) \notin tags
          /\ (run.cmd = "release" /\ run.dryRun /\ pc = "failed"
              /\ run.next # <<>>) =>
                 (run.err = "TagAlreadyExists" /\ TagName(run.next) \in tags))

\* a dry-run release of 1.2.3 finds v1.2.4 and fails
C8_Witness ==
    /\ pc = "failed" /\ run.cmd = "release" /\ run.dryRun
    /\ run.err = "TagAlreadyExists"
    /\ TagName(run.next) \in tags
    /\ pkg.version = run.current

\* C9: a release that is no dry run and fails keeps what its completed steps
\* did and does nothing of the later ones: on TagAlreadyExists the manifest
\* and the changelog carry the next version and the release commit exists,
\* and the run created and pushed no tag; on a push failure the local tag
\* exists as well; the failing step itself changes nothing.
C9_NoRollback ==
    /\ [](LET written == /\ pkg = writeVersion(run.next)
                         /\ clog.exists /\ TopVersion(clog) = run.next
              committed == /\ relCommits = <<run.next>>
                           /\ Len(since) > 0 /\ since[1] = ReleaseRaw(run.next)
          IN  (pc = "failed" /\ run.cmd = "release" /\ ~run.dryRun) =>
                  /\ run.err = "CommitFailed" =>
                        /\ written
                        /\ relCommits = <<>>
                        /\ remoteTags = {}
                  /\ run.err = "TagAlreadyExists" =>
                        /\ written /\ committed
                        /\ lastTag # TagName(run.next) \/ run.next = run.current
                        /\ remoteTags = {}
                  /\ run.err = "PushFailure" =>
                        /\ written
                        /\ relCommits = <<run.next>>
                        /\ TagName(run.next) \in tags
                        /\ lastTag = TagName(run.next)
                        /\ remoteTags = {})
    /\ [][pc' = "failed" =>
            /\ pkg' = pkg /\ clog' = clog /\ since' = since
            /\ relCommits' = relCommits /\ tags' = tags
            /\ lastTag' = lastTag /\ remoteTags' = remoteTags]_vars

\* the release of 1.2.3 found v1.2.4: files written, commit made, no tag
C9_Witness ==
    /\ pc = "failed" /\ run.cmd = "release" /\ ~run.dryRun
    /\ run.err = "TagAlreadyExists"
    /\ run.current = V123
    /\ pkg.version = run.next
    /\ relCommits = <<run.next>>
    /\ lastTag = TagName(V123)

\* C10: in a release that is no dry run the push is made exactly when push
\* is requested and the remote is configured, and only on the tag the run
\* has created locally; requested without a remote, the run completes
\* without error and reports pushed = false; with push disabled nothing is
\* pushed whether or not a remote exists.
C10_PushDecision ==
    /\ [][(pc = "push" /\ ~run.dryRun) =>
            /\ (remoteTags' # remoteTags \/ run'.err = "PushFailure")
                   <=> (run.push /\ remote)
            /\ remoteTags' # remoteTags =>
                   /\ run.tag \in tags
                   /\ remoteTags' = remoteTags \cup {run.tag}
                   /\ run'.pushed /\ pc' = "done"
            /\ ~(run.push /\ remote) =>
                   /\ pc' = "done" /\ run'.err = "" /\ ~run'.pushed]_vars
    /\ [][remoteTags' # remoteTags => pc = "push"]_vars
    /\ []((pc = "done" /\ run.cmd = "release" /\ ~run.dryRun) =>
             /\ run.pushed <=> (run.push /\ remote)
             /\ run.pushed <=> (run.tag \in remoteTags)
             /\ run.tag \in tags)

\* push requested, no remote: done, tag local only, pushed = false
C10_Witness ==
    /\ pc = "done" /\ run.cmd = "release" /\ ~run.dryRun
    /\ run.push /\ ~remote /\ ~run.pushed
    /\ run.tag \in tags /\ remoteTags = {}

-----------------------------------------------------------------------------
(* Claims about the changelog file and successive releases (SpecSeq)       *)

\* the version sections of a document: its lines from the first "## " line
\* on, without the empty lines at the end
VersionSections(lines) ==
    LET heads == {i \in 1..Len(lines) : StartsH2(lines[i])}
    IN  IF heads = {} THEN <<>>
        ELSE TrimLines(SubSeq(lines,
                              CHOOSE i \in heads : \A j \in heads : i <= j,
                              Len(lines)))

\* C11: the changelog write of a release that is no dry run leaves
\* CHANGELOG.md as one standard header, then the newly rendered section,
\* then every version section of the document it found, unchanged, in their
\* order and none lost; after any number of releases, and for a document
\* found with the header, without it, or not at all.
C11_WritePrepends ==
    [][(pc = "write" /\ ~run.dryRun) =>
          LET old == VersionSections(clog.lines)
          IN  /\ clog'.exists
              /\ clog'.lines =
                     ChangelogHeader \o run.changelog
                     \o (IF old = <<>> THEN <<>> ELSE << <<"blank">> >> \o old)]_vars

-----------------------------------------------------------------------------
(* Claims about parseCommits and generateChangelog (SpecRender)            *)

BreakingHeading == <<"h3", "BREAKING CHANGES">>

\* the headings and bullets of a rendered section, top to bottom; a bullet
\* is named by the description it carries
Outline(doc) ==
    LET Kept(line) == line[1] \in {"h3", "li"}
        kept == SelectSeq(doc, Kept)
    IN  [i \in 1..Len(kept) |->
            IF kept[i][1] = "h3" THEN kept[i] ELSE <<"li", kept[i][3]>>]

\* the outline from the first category heading on
CategoryPart(outline) ==
    LET heads == {i \in 1..Len(outline) :
                     outline[i][1] = "h3" /\ outline[i] # BreakingHeading}
    IN  IF heads = {} THEN <<>>
        ELSE SubSeq(outline, CHOOSE i \in heads : \A j \in heads : i <= j,
                    Len(outline))

\* the outline before the first category heading
BreakingPart(outline) ==
    SubSeq(outline, 1, Len(outline) - Len(CategoryPart(outline)))

\* the category of a commit: its token when the registry has it, else other
Category(commit) == IF KnownType(commit.type) THEN commit.type ELSE T_other

RECURSIVE SectionsFrom(_, _)
\* heading and bullets of every registry category from the i-th on that has
\* a commit, in registry order, the commits of one category in input order
SectionsFrom(commits, i) ==
    IF i > Len(COMMIT_TYPES) THEN <<>>
    ELSE LET In(c) == Category(c) = COMMIT_TYPES[i].type
             cs == SelectSeq(commits, In)
         IN  (IF cs = <<>> THEN <<>>
              ELSE << <<"h3", COMMIT_TYPES[i].label>> >>
                   \o [k \in 1..Len(cs) |-> <<"li", cs[k].description>>])
             \o SectionsFrom(commits, i + 1)

\* C12: generateChangelog renders a BREAKING CHANGES section iff some commit
\* is breaking, and before every category section; the category sections
\* come in ascending registry order whatever the input order, only for
\* categories that have a commit, and their bullets read top to bottom are
\* the input commits stably sorted by registry display order.
C12_SectionOrder ==
    rstage = "rendered" =>
        LET outline == Outline(rdoc)
            at == {i \in 1..Len(outline) : outline[i] = BreakingHeading}
        IN  /\ hasBreakingChanges(rparsed) <=> at # {}
            /\ at \subseteq {1}
            /\ CategoryPart(outline) = SectionsFrom(rparsed, 1)

\* the subject field of a raw record, trimmed
SubjectOf(raw) == Trim(Field(Split(raw, NUL), 2))

HasSubject(raw) == SubjectOf(raw) # <<>>

RECURSIVE LeadToken(_)
\* the lowercase letters a subject begins with
LeadToken(subject) ==
    IF Len(subject) > 0 /\ IsLower(subject[1])
    THEN <<subject[1]>> \o LeadToken(Tail(subject))
    ELSE <<>>

\* C13: parseCommits returns one classified commit for every raw record
\* whose trimmed subject is not empty and none for the others, in the order
\* of the records; the category of each is the lowercase token the subject
\* begins with when the subject matches the grammar, and other when not.
C13_OnePerSubject ==
    rstage \in {"parsed", "rendered"} =>
        LET kept == SelectSeq(rraws, HasSubject)
        IN  /\ Len(rparsed) = Len(kept)
            /\ \A i \in 1..Len(kept) :
                  LET subject == SubjectOf(kept[i])
                  IN  /\ rparsed[i].raw = subject
                      /\ rparsed[i].type # <<>>
                      /\ rparsed[i].type =
                             IF COMMIT_PATTERN(subject).matched
                             THEN LeadToken(subject) ELSE T_other

\* three records, the second without subject, the third unconventional
C13_Witness ==
    /\ rstage = "parsed"
    /\ Len(rraws) = 3 /\ Len(rparsed) = 2
    /\ ~HasSubject(rraws[2])
    /\ rparsed[1].type = T_feat
    /\ rparsed[2].type = T_other /\ rparsed[2].raw = <<"F", "i", "x", " ", "i", "t">>

RegistryLabels == {COMMIT_TYPES[i].label : i \in 1..Len(COMMIT_TYPES)}

\* C14: every commit whose token is not one of the twelve of the registry
\* has its bullet in the one section labelled as the registry labels other,
\* that section is the last category section, and no category section has
\* a label the registry does not hold.
C14_ClosedRegistry ==
    rstage = "rendered" =>
        LET cat == CategoryPart(Outline(rdoc))
            heads == {i \in 1..Len(cat) : cat[i][1] = "h3"}
            others == {i \in heads : cat[i][2] = TypeEntry(T_other).label}
        IN  /\ \A i \in heads : cat[i][2] \in RegistryLabels
            /\ \A k \in 1..Len(rparsed) :
                  ~KnownType(rparsed[k].type) =>
                      /\ Cardinality(others) = 1
                      /\ \A o \in others :
                            /\ \A i \in heads : i <= o
                            /\ \E j \in (o + 1)..Len(cat) :
                                  cat[j] = <<"li", rparsed[k].description>>

\* how many elements of s equal x
Count(s, x) == Cardinality({i \in 1..Len(s) : s[i] = x})

\* C16: a commit listed under BREAKING CHANGES is not listed again in a
\* category section, so the document holds exactly one bullet for every
\* input commit.
C16_OneBulletEach ==
    rstage = "rendered" =>
        LET outline == Outline(rdoc)
        IN  /\ \A i \in 1..Len(rparsed) :
                  Count(outline, <<"li", rparsed[i].description>>)
                      = Count([k \in 1..Len(rparsed) |-> rparsed[k].description],
                              rparsed[i].description)
            /\ \A i \in 1..Len(rparsed) :
                  rparsed[i].breaking =>
                      Count(CategoryPart(outline),
                            <<"li", rparsed[i].description>>) = 0

\* C16 as the code has it: the category sections list all the input commits,
\* each once, and the BREAKING CHANGES section lists the breaking ones once
\* more; a breaking commit has two bullets in the document.
C16_BreakingListedTwice ==
    rstage = "rendered" =>
        LET outline == Outline(rdoc)
            descs == [k \in 1..Len(rparsed) |-> rparsed[k].description]
            IsB(c) == c.breaking
            breaking == SelectSeq(rparsed, IsB)
            bdescs == [k \in 1..Len(breaking) |-> breaking[k].description]
        IN  \A i \in 1..Len(rparsed) :
               LET bullet == <<"li", descs[i]>>
               IN  /\ Count(CategoryPart(outline), bullet) = Count(descs, descs[i])
                   /\ Count(BreakingPart(outline), bullet)
                          = Count(bdescs, descs[i])

\* feat!: y is listed under BREAKING CHANGES and under Features
C16_Witness ==
    /\ rstage = "rendered"
    /\ Len(rparsed) = 2
    /\ rparsed[1].breaking /\ ~rparsed[2].breaking
    /\ Count(BreakingPart(Outline(rdoc)), <<"li", rparsed[1].description>>) = 1
    /\ Count(CategoryPart(Outline(rdoc)), <<"li", rparsed[1].description>>) = 1

-----------------------------------------------------------------------------
(* Claims about the order of the release steps and about versions          *)

\* C15: a release that is no dry run goes from idle to the computed version,
\* to the rendered changelog, to the written files; the manifest is written
\* in the step that writes the files, after the changelog has been
\* rendered, and no file changes before the changelog is rendered.
C15_FilesWrittenAfterRender ==
    [][(run'.cmd = "release" /\ ~run'.dryRun) =>
          /\ (pkg' # pkg \/ clog' # clog) => (pc = "write" /\ pc' = "commit")
          /\ pc' # pc =>
                <<pc, pc'>> \in { <<"idle", "changelog">>, <<"idle", "failed">>,
                                  <<"changelog", "write">>, <<"write", "commit">>,
                                  <<"commit", "tag">>, <<"commit", "failed">>,
                                  <<"tag", "push">>, <<"tag", "failed">>,
                                  <<"push", "done">>, <<"push", "failed">> }]_vars

\* C17: when a release that is no dry run has completed, the first one or a
\* later one, the manifest version, the version heading the top section of
\* CHANGELOG.md, the version in the message of the release commit and the
\* name of the created tag without its v are all the next version.
C17_VersionsAgree ==
    (pc = "done" /\ run.cmd = "release" /\ ~run.dryRun) =>
        /\ pkg.state = "ok" /\ pkg.version = run.next
        /\ clog.exists /\ TopVersion(clog) = run.next
        /\ Len(relCommits) > 0 /\ relCommits[Len(relCommits)] = run.next
        /\ run.tag = <<"v">> \o run.next
        /\ run.tag \in tags /\ lastTag = run.tag

\* the second release in a row has completed
C17_Witness ==
    /\ pc = "done" /\ run.cmd = "release" /\ ~run.dryRun
    /\ Len(relCommits) = 2
    /\ relCommits[1] # relCommits[2]
    /\ pkg.version = relCommits[2]
    /\ TopVersion(clog) = relCommits[2]
    /\ run.tag = <<"v">> \o relCommits[2]

\* version a precedes version b in (major, minor, patch) order
Precedes(a, b) ==
    LET x == VersionParts(a)
        y == VersionParts(b)
    IN  \/ x[1].val < y[1].val
        \/ x[1].val = y[1].val /\ x[2].val < y[2].val
        \/ x[1].val = y[1].val /\ x[2].val = y[2].val /\ x[3].val < y[3].val

\* C19: whenever bump or release has computed a next version, it is greater
\* than the current version in (major, minor, patch) order, whatever the
\* commits and whatever the force option holds.
C19_NextGreater ==
    (run.cmd \in {"bump", "release"} /\ run.next # <<>>) =>
        /\ run.next # run.current
        /\ Precedes(run.current, run.next)

-----------------------------------------------------------------------------
(* Claims about the dry run and the run it rehearses (SpecPair)            *)

====
